---- MODULE Spec2Model ----
(***************************************************************************)
(* Model of the ArrayQL QueryBuilder (src/src/core/QueryBuilder.ts): an    *)
(* in-memory query engine over an array of records.  Arrays are heap       *)
(* objects held by reference, so that the aliasing between the caller's    *)
(* array, the engine's this.data and the array returned by value() is      *)
(* part of the state.                                                      *)
(***************************************************************************)
EXTENDS Integers, Sequences, FiniteSets, TLC

VARIABLES
    heap,             \* array reference -> contents (sequence of records)
    data,             \* this.data: reference of the engine's array
    conditionGroups,  \* this.conditionGroups
    fields,           \* this.fields
    sortConfig,       \* this.sortConfig   ({} is null)
    limitCount,       \* this.limitCount   ({} is null)
    offsetCount,      \* this.offsetCount
    distinctField,    \* this.distinctField ({} is null)
    result,           \* reference returned by the caller's last value()
    lastCall,         \* the last method call: name, arguments, threw
    pre,              \* engine state at the moment of the last call
    calls,            \* number of method calls made on the engine
    sortImpl          \* which Array.prototype.sort the runtime provides

vars == <<heap, data, conditionGroups, fields, sortConfig, limitCount,
          offsetCount, distinctField, result, lastCall, pre, calls, sortImpl>>

-----------------------------------------------------------------------------
(* Bounds *)

MaxLen == 3
MaxCount == 2
MaxConds == 3
MaxCalls == 4

-----------------------------------------------------------------------------
(* JavaScript values: numbers, null, undefined and arrays of numbers *)

Num(n) == [type |-> "number", v |-> n]
Null == [type |-> "null", v |-> 0]
Undefined == [type |-> "undefined", v |-> 0]
Arr(s) == [type |-> "array", v |-> s]

\* a nullable field of the engine: {} is null, {x} holds x
JSNull == {}
Some(x) == {x}
Unwrap(s) == CHOOSE x \in s : TRUE

\* item[key]: a missing property reads as undefined
Get(item, key) == IF key \in DOMAIN item THEN item[key] ELSE Undefined

\* === on the modelled values (an array is only identical to itself, and a
\* record never holds the array literal of a condition)
StrictEquals(x, y) == x.type = y.type /\ x.type # "array" /\ x.v = y.v

\* ToNumber: null is 0, undefined is NaN
IsNaN(x) == x.type = "undefined"
ToNumber(x) == CASE x.type = "number" -> x.v
                 [] x.type = "null" -> 0

\* x < y of JavaScript: false as soon as one side is NaN
LessThan(x, y) == ~IsNaN(x) /\ ~IsNaN(y) /\ ToNumber(x) < ToNumber(y)
LessOrEqual(x, y) == ~IsNaN(x) /\ ~IsNaN(y) /\ ToNumber(x) <= ToNumber(y)

\* x == null
LooseNull(x) == x.type \in {"null", "undefined"}

Cond(key, operator, val) == [key |-> key, operator |-> operator, value |-> val]

evaluate(item, cond) ==
    LET val == Get(item, cond.key) IN
    CASE cond.operator = "=" -> StrictEquals(val, cond.value)
      [] cond.operator = ">" -> LessThan(cond.value, val)
      [] cond.operator = "<" -> LessThan(val, cond.value)
      [] cond.operator = ">=" -> LessOrEqual(cond.value, val)
      [] cond.operator = "<=" -> LessOrEqual(val, cond.value)
      [] cond.operator = "!=" -> ~StrictEquals(val, cond.value)
      [] cond.operator = "IN" ->
            cond.value.type = "array"
            /\ \E i \in 1..Len(cond.value.v) : StrictEquals(cond.value.v[i], val)
      [] OTHER -> FALSE

\* a group test that lets the empty group match every record
groupMatchesVacuous(item, group) ==
    \A i \in 1..Len(group) : evaluate(item, group[i])

\* a group test that is satisfied by one condition of the group
groupMatchesSome(item, group) ==
    \E i \in 1..Len(group) : evaluate(item, group[i])

\* group.length > 0 && group.every(cond => this.evaluate(item, cond))
groupMatches(item, group) ==
    Len(group) > 0 /\ \A i \in 1..Len(group) : evaluate(item, group[i])

\* this.conditionGroups.some(group => ...)
matches(item, groups) ==
    \E g \in 1..Len(groups) : groupMatches(item, groups[g])

\* this.conditionGroups.some(group => group.length > 0)
hasConditions(groups) == \E g \in 1..Len(groups) : Len(groups[g]) > 0

-----------------------------------------------------------------------------
(* Array helpers *)

\* Array.prototype.filter
RECURSIVE Filter(_, _)
Filter(s, groups) ==
    IF s = <<>> THEN <<>>
    ELSE IF matches(Head(s), groups)
         THEN <<Head(s)>> \o Filter(Tail(s), groups)
         ELSE Filter(Tail(s), groups)

\* Array.prototype.slice(start, end) for 0 <= start, 0 <= end
Slice(s, start, end) ==
    LET stop == IF end < Len(s) THEN end ELSE Len(s)
    IN  IF start >= stop THEN <<>>
        ELSE [i \in 1..(stop - start) |-> s[start + i]]

\* moves the element at index from to index pos (pos <= from)
MoveTo(s, pos, from) ==
    [i \in 1..Len(s) |->
        IF i < pos THEN s[i]
        ELSE IF i = pos THEN s[from]
        ELSE IF i <= from THEN s[i - 1]
        ELSE s[i]]

\* reverses the first n elements
ReversePrefix(s, n) ==
    [i \in 1..Len(s) |-> IF i <= n THEN s[n + 1 - i] ELSE s[i]]

-----------------------------------------------------------------------------
(* ORDER BY *)

\* a comparator that negates the whole comparison for DESC, nulls included
compareNegatesNulls(a, b, cfg) ==
    LET valA == Get(a, cfg.key)
        valB == Get(b, cfg.key)
        ascending == IF LooseNull(valA) THEN 1
                     ELSE IF LooseNull(valB) THEN -1
                     ELSE IF StrictEquals(valA, valB) THEN 0
                     ELSE IF LessThan(valA, valB) THEN -1 ELSE 1
    IN  IF cfg.direction = "ASC" THEN ascending ELSE -ascending

\* the comparator handed to Array.prototype.sort
compare(a, b, cfg) ==
    LET valA == Get(a, cfg.key)
        valB == Get(b, cfg.key)
    IN  IF LooseNull(valA) THEN 1
        ELSE IF LooseNull(valB) THEN -1
        ELSE IF StrictEquals(valA, valB) THEN 0
        ELSE LET comparison == IF LessThan(valA, valB) THEN -1 ELSE 1
             IN  IF cfg.direction = "ASC" THEN comparison ELSE -comparison

(* The comparator answers 1 for two null keys in both directions, so it is  *)
(* not a consistent comparison function and the order Array.prototype.sort  *)
(* produces is implementation-defined.  Two runtimes are modelled, each by  *)
(* the algorithm it runs on short arrays: binary insertion after a leading  *)
(* run (V8), and linear insertion (SpiderMonkey).                           *)
SortImpls == {"binaryInsertion", "linearInsertion"}

\* length of the run starting at index 1, idx being the next index to look at
RECURSIVE RunEnd(_, _, _, _)
RunEnd(s, idx, descending, cfg) ==
    IF idx > Len(s) THEN idx - 1
    ELSE LET order == compare(s[idx], s[idx - 1], cfg)
         IN  IF (descending /\ order >= 0) \/ (~descending /\ order < 0)
             THEN idx - 1
             ELSE RunEnd(s, idx + 1, descending, cfg)

\* index at which pivot is inserted into the sorted prefix [left, right)
RECURSIVE BinarySearch(_, _, _, _, _)
BinarySearch(s, pivot, left, right, cfg) ==
    IF left >= right THEN left
    ELSE LET mid == left + ((right - left) \div 2)
         IN  IF compare(pivot, s[mid], cfg) < 0
             THEN BinarySearch(s, pivot, left, mid, cfg)
             ELSE BinarySearch(s, pivot, mid + 1, right, cfg)

RECURSIVE BinaryInsertionSort(_, _, _)
BinaryInsertionSort(s, start, cfg) ==
    IF start > Len(s) THEN s
    ELSE LET pos == BinarySearch(s, s[start], 1, start, cfg)
         IN  BinaryInsertionSort(MoveTo(s, pos, start), start + 1, cfg)

sortBinaryInsertion(s, cfg) ==
    IF Len(s) < 2 THEN s
    ELSE LET descending == compare(s[2], s[1], cfg) < 0
             runLength == RunEnd(s, 3, descending, cfg)
             run == IF descending THEN ReversePrefix(s, runLength) ELSE s
         IN  BinaryInsertionSort(run, runLength + 1, cfg)

\* index at which item (at index i) is inserted, scanning down from j
RECURSIVE LinearSearch(_, _, _, _)
LinearSearch(s, item, j, cfg) ==
    IF j < 1 THEN 1
    ELSE IF compare(s[j], item, cfg) <= 0 THEN j + 1
    ELSE LinearSearch(s, item, j - 1, cfg)

RECURSIVE LinearInsertionSort(_, _, _)
LinearInsertionSort(s, i, cfg) ==
    IF i > Len(s) THEN s
    ELSE LET pos == LinearSearch(s, s[i], i - 1, cfg)
         IN  LinearInsertionSort(MoveTo(s, pos, i), i + 1, cfg)

\* [...data].sort(comparator)
sort(s, cfg, impl) ==
    IF impl = "binaryInsertion" THEN sortBinaryInsertion(s, cfg)
    ELSE LinearInsertionSort(s, 2, cfg)

-----------------------------------------------------------------------------
(* DISTINCT and SELECT *)

\* a distinct that keeps the last record of each field value
RECURSIVE distinctByLast(_, _, _)
distinctByLast(s, key, seen) ==
    IF s = <<>> THEN <<>>
    ELSE LET val == Get(Head(s), key)
         IN  IF \E i \in 2..Len(s) : Get(s[i], key) = val
             THEN distinctByLast(Tail(s), key, seen)
             ELSE <<Head(s)>> \o distinctByLast(Tail(s), key, seen)

\* filter with the Set seen: keeps the first record of each field value
RECURSIVE distinctBy(_, _, _)
distinctBy(s, key, seen) ==
    IF s = <<>> THEN <<>>
    ELSE LET val == Get(Head(s), key)
         IN  IF val \in seen THEN distinctBy(Tail(s), key, seen)
             ELSE <<Head(s)>> \o distinctBy(Tail(s), key, seen \cup {val})

Range(s) == {s[i] : i \in 1..Len(s)}

\* for (const field of this.fields) selected[field] = item[field]
project(item, flds) == [f \in Range(flds) |-> Get(item, f)]

-----------------------------------------------------------------------------
(* value(): WHERE -> ORDER BY -> OFFSET -> LIMIT -> DISTINCT -> SELECT *)

\* a query state: the engine's fields other than this.data
Query(groups, flds, sortCfg, lim, off, dist) ==
    [conditionGroups |-> groups, fields |-> flds, sortConfig |-> sortCfg,
     limitCount |-> lim, offsetCount |-> off, distinctField |-> dist]

\* An array on its way through value(): fresh tells whether it is a new
\* array or still this.data itself.
Stage(fresh, items) == [fresh |-> fresh, items |-> items]

\* if (hasConditions) filtered = this.data.filter(...)
whereStage(a, q) ==
    IF hasConditions(q.conditionGroups)
    THEN Stage(TRUE, Filter(a.items, q.conditionGroups))
    ELSE a

\* if (this.sortConfig) filtered = this.sort(filtered)
orderStage(a, q, impl) ==
    IF q.sortConfig # JSNull
    THEN Stage(TRUE, sort(a.items, Unwrap(q.sortConfig), impl))
    ELSE a

\* if (this.offsetCount > 0) filtered = filtered.slice(this.offsetCount)
offsetStage(a, q) ==
    IF q.offsetCount > 0
    THEN Stage(TRUE, Slice(a.items, q.offsetCount, Len(a.items)))
    ELSE a

\* a limit that keeps one record too many
limitStageInclusive(a, q) ==
    IF q.limitCount # JSNull
    THEN Stage(TRUE, Slice(a.items, 0, Unwrap(q.limitCount) + 1))
    ELSE a

\* if (this.limitCount !== null) filtered = filtered.slice(0, this.limitCount)
limitStage(a, q) ==
    IF q.limitCount # JSNull
    THEN Stage(TRUE, Slice(a.items, 0, Unwrap(q.limitCount)))
    ELSE a

\* if (this.distinctField !== null) filtered = filtered.filter(<not seen>)
distinctStage(a, q) ==
    IF q.distinctField # JSNull
    THEN Stage(TRUE, distinctBy(a.items, Unwrap(q.distinctField), {}))
    ELSE a

\* if (this.fields.length === 0) return filtered; return filtered.map(...)
selectStage(a, q) ==
    IF Len(q.fields) = 0 THEN a
    ELSE Stage(TRUE, [i \in 1..Len(a.items) |-> project(a.items[i], q.fields)])

\* a value() that removes duplicates before it paginates
valueResultDistinctFirst(items, q, impl) ==
    selectStage(
      limitStage(
        offsetStage(
          distinctStage(
            orderStage(
              whereStage(Stage(FALSE, items), q), q, impl), q), q), q), q)

\* the array value() returns for the engine array items under query state q
valueResult(items, q, impl) ==
    selectStage(
      distinctStage(
        limitStage(
          offsetStage(
            orderStage(
              whereStage(Stage(FALSE, items), q), q, impl), q), q), q), q)

-----------------------------------------------------------------------------
(* The heap of arrays *)

Refs == {"A0", "A1", "A2", "A3"}

\* the array the caller passed to the constructor
callerArray == "A0"

\* the caller has not called value() yet
NoResult == "none"

\* a new array object: a reference nothing holds
alloc(held) == CHOOSE r \in Refs : r \notin held

\* arrays nothing refers to any more are dropped
collect(h, live) == [r \in Refs |-> IF r \in live THEN h[r] ELSE <<>>]

-----------------------------------------------------------------------------
(* The engine *)

CurrentQuery ==
    Query(conditionGroups, fields, sortConfig, limitCount, offsetCount,
          distinctField)

DefaultQuery == Query(<<<<>>>>, <<>>, JSNull, JSNull, 0, JSNull)

Snapshot ==
    [query |-> CurrentQuery,
     data |-> data,
     items |-> heap[data],
     callerItems |-> heap[callerArray],
     result |-> result,
     resultItems |-> IF result = NoResult THEN <<>> ELSE heap[result]]

Called(op, args, threw) ==
    /\ lastCall' = [op |-> op, args |-> args, threw |-> threw]
    /\ pre' = Snapshot
    /\ calls' = calls + 1

\* constructor(data) on the caller's array items, running on runtime impl
constructor(items, impl) ==
    /\ heap = [r \in Refs |-> IF r = callerArray THEN items ELSE <<>>]
    /\ data = callerArray
    /\ conditionGroups = <<<<>>>>
    /\ fields = <<>>
    /\ sortConfig = JSNull
    /\ limitCount = JSNull
    /\ offsetCount = 0
    /\ distinctField = JSNull
    /\ result = NoResult
    /\ lastCall = [op |-> "constructor", args |-> <<>>, threw |-> FALSE]
    /\ pre = [query |-> DefaultQuery, data |-> callerArray, items |-> items,
              callerItems |-> items, result |-> NoResult, resultItems |-> <<>>]
    /\ calls = 0
    /\ sortImpl = impl

\* currentGroup?.push({ key, operator, value })
pushCondition(groups, cond) ==
    [groups EXCEPT ![Len(groups)] = Append(@, cond)]

where(key, operator, val) ==
    /\ conditionGroups' = pushCondition(conditionGroups, Cond(key, operator, val))
    /\ Called("where", <<key, operator, val>>, FALSE)
    /\ UNCHANGED <<heap, data, fields, sortConfig, limitCount, offsetCount,
                   distinctField, result, sortImpl>>

\* an orWhere that starts a new group whatever the groups are
pushGroupAlways(groups, cond) == Append(groups, <<cond>>)

\* the groups orWhere leaves: like where() on the single empty group,
\* a new group otherwise
pushGroup(groups, cond) ==
    IF Len(groups) = 1 /\ Len(groups[1]) = 0
    THEN pushCondition(groups, cond)
    ELSE Append(groups, <<cond>>)

orWhere(key, operator, val) ==
    /\ conditionGroups' = pushGroup(conditionGroups, Cond(key, operator, val))
    /\ Called("orWhere", <<key, operator, val>>, FALSE)
    /\ UNCHANGED <<heap, data, fields, sortConfig, limitCount, offsetCount,
                   distinctField, result, sortImpl>>

\* a value() whose sort stage sorts this.data in place
valueSortsInPlace ==
    LET sorted == orderStage(Stage(FALSE, heap[data]), CurrentQuery, sortImpl)
        returned == valueResult(sorted.items, CurrentQuery, sortImpl)
        newArray == alloc({callerArray, data})
    IN  /\ IF returned.fresh
           THEN /\ result' = newArray
                /\ heap' = collect([heap EXCEPT ![data] = sorted.items,
                                                ![newArray] = returned.items],
                                   {callerArray, data, newArray})
           ELSE /\ result' = data
                /\ heap' = collect(heap, {callerArray, data})
        /\ Called("value", <<>>, FALSE)
        /\ UNCHANGED <<data, conditionGroups, fields, sortConfig, limitCount,
                       offsetCount, distinctField, sortImpl>>

value ==
    LET returned == valueResult(heap[data], CurrentQuery, sortImpl)
        newArray == alloc({callerArray, data})
    IN  /\ IF returned.fresh
           THEN /\ result' = newArray
                /\ heap' = collect([heap EXCEPT ![newArray] = returned.items],
                                   {callerArray, data, newArray})
           ELSE /\ result' = data
                /\ heap' = collect(heap, {callerArray, data})
        /\ Called("value", <<>>, FALSE)
        /\ UNCHANGED <<data, conditionGroups, fields, sortConfig, limitCount,
                       offsetCount, distinctField, sortImpl>>

\* a select that takes an empty or absent list as "no projection"
selectClearsOnEmpty(flds) ==
    /\ fields' = IF flds # JSNull THEN Unwrap(flds) ELSE <<>>
    /\ Called("select", <<flds>>, FALSE)
    /\ UNCHANGED <<heap, data, conditionGroups, sortConfig, limitCount,
                   offsetCount, distinctField, result, sortImpl>>

\* the argument is absent (JSNull) or an array of field names
select(flds) ==
    /\ fields' = IF flds # JSNull /\ Len(Unwrap(flds)) > 0
                 THEN Unwrap(flds) ELSE fields
    /\ Called("select", <<flds>>, FALSE)
    /\ UNCHANGED <<heap, data, conditionGroups, sortConfig, limitCount,
                   offsetCount, distinctField, result, sortImpl>>

orderBy(key, direction) ==
    /\ sortConfig' = Some([key |-> key, direction |-> direction])
    /\ Called("orderBy", <<key, direction>>, FALSE)
    /\ UNCHANGED <<heap, data, conditionGroups, fields, limitCount,
                   offsetCount, distinctField, result, sortImpl>>

\* a limit() that stores the count before it validates it
limitStoresFirst(count) ==
    /\ limitCount' = Some(count)
    /\ Called("limit", <<count>>, count < 0)
    /\ UNCHANGED <<heap, data, conditionGroups, fields, sortConfig,
                   offsetCount, distinctField, result, sortImpl>>

limit(count) ==
    /\ limitCount' = IF count < 0 THEN limitCount ELSE Some(count)
    /\ Called("limit", <<count>>, count < 0)
    /\ UNCHANGED <<heap, data, conditionGroups, fields, sortConfig,
                   offsetCount, distinctField, result, sortImpl>>

offset(count) ==
    /\ offsetCount' = IF count < 0 THEN offsetCount ELSE count
    /\ Called("offset", <<count>>, count < 0)
    /\ UNCHANGED <<heap, data, conditionGroups, fields, sortConfig,
                   limitCount, distinctField, result, sortImpl>>

distinct(key) ==
    /\ distinctField' = Some(key)
    /\ Called("distinct", <<key>>, FALSE)
    /\ UNCHANGED <<heap, data, conditionGroups, fields, sortConfig,
                   limitCount, offsetCount, result, sortImpl>>

\* a reset that keeps the projection
resetKeepsProjection ==
    /\ conditionGroups' = <<<<>>>>
    /\ fields' = fields
    /\ sortConfig' = JSNull
    /\ limitCount' = JSNull
    /\ offsetCount' = 0
    /\ distinctField' = JSNull

\* a reset that leaves no condition group at all
resetLeavesNoGroup ==
    /\ conditionGroups' = <<>>
    /\ fields' = <<>>
    /\ sortConfig' = JSNull
    /\ limitCount' = JSNull
    /\ offsetCount' = 0
    /\ distinctField' = JSNull

\* the assignments of reset()
resetQuery ==
    /\ conditionGroups' = <<<<>>>>
    /\ fields' = <<>>
    /\ sortConfig' = JSNull
    /\ limitCount' = JSNull
    /\ offsetCount' = 0
    /\ distinctField' = JSNull

reset ==
    /\ resetQuery
    /\ Called("reset", <<>>, FALSE)
    /\ UNCHANGED <<heap, data, result, sortImpl>>

\* an insert that puts the records in front of the collection
insertAtFront(record) ==
    /\ heap' = [heap EXCEPT ![data] = record.items \o @]
    /\ Called("insert", <<record>>, FALSE)
    /\ UNCHANGED <<data, conditionGroups, fields, sortConfig, limitCount,
                   offsetCount, distinctField, result, sortImpl>>

\* record is one record (isArray FALSE, one item) or an array of records
insert(record) ==
    /\ heap' = [heap EXCEPT ![data] = @ \o record.items]
    /\ Called("insert", <<record>>, FALSE)
    /\ UNCHANGED <<data, conditionGroups, fields, sortConfig, limitCount,
                   offsetCount, distinctField, result, sortImpl>>

\* a merge in which the old values win: { ...updates, ...item }
mergeKeepsOld(item, updates) ==
    [k \in DOMAIN item \cup DOMAIN updates |->
        IF k \in DOMAIN item THEN item[k] ELSE updates[k]]

\* { ...item, ...updates }
merge(item, updates) ==
    [k \in DOMAIN item \cup DOMAIN updates |->
        IF k \in DOMAIN updates THEN updates[k] ELSE item[k]]

\* this.data.map(item => matches ? { ...item, ...updates } : item)
updated(items, groups, updates) ==
    [i \in 1..Len(items) |->
        IF matches(items[i], groups) THEN merge(items[i], updates)
        ELSE items[i]]

\* a delete that removes a record as soon as one condition of a group holds
RECURSIVE deletedOnAnyCondition(_, _)
deletedOnAnyCondition(items, groups) ==
    IF items = <<>> THEN <<>>
    ELSE IF \E g \in 1..Len(groups) : groupMatchesSome(Head(items), groups[g])
         THEN deletedOnAnyCondition(Tail(items), groups)
         ELSE <<Head(items)>> \o deletedOnAnyCondition(Tail(items), groups)

\* this.data.filter(item => !matches)
RECURSIVE deleted(_, _)
deleted(items, groups) ==
    IF items = <<>> THEN <<>>
    ELSE IF matches(Head(items), groups)
         THEN deleted(Tail(items), groups)
         ELSE <<Head(items)>> \o deleted(Tail(items), groups)

\* this.data = <a new array holding items>
assignData(items) ==
    LET newArray == alloc({callerArray, data, result})
    IN  /\ data' = newArray
        /\ heap' = collect([heap EXCEPT ![newArray] = items],
                           {callerArray, newArray, result})

update(updates) ==
    /\ assignData(updated(heap[data], conditionGroups, updates))
    /\ resetQuery
    /\ Called("update", <<updates>>, FALSE)
    /\ UNCHANGED <<result, sortImpl>>

delete ==
    /\ assignData(deleted(heap[data], conditionGroups))
    /\ resetQuery
    /\ Called("delete", <<>>, FALSE)
    /\ UNCHANGED <<result, sortImpl>>

-----------------------------------------------------------------------------
(* Inputs *)

Rec(id, age) == [id |-> Num(id), age |-> age]

\* number of conditions over all groups
RECURSIVE CountConds(_)
CountConds(groups) ==
    IF groups = <<>> THEN 0 ELSE Len(Head(groups)) + CountConds(Tail(groups))

\* the arrays the engine is constructed on
InitialData == { <<>>, <<Rec(1, Num(1)), Rec(2, Num(2))>> }

EngineConds == { <<"age", "=", Num(1)>>, <<"age", ">", Num(1)>> }

EngineSelects == { JSNull, Some(<<>>), Some(<<"id">>), Some(<<"age", "dept">>) }

EngineInserts ==
    { [isArray |-> FALSE, items |-> <<Rec(3, Num(1))>>],
      [isArray |-> TRUE, items |-> <<Rec(3, Num(2)), [id |-> Num(4)]>>] }

EngineUpdates == { [age |-> Num(2)] }

Directions == {"ASC", "DESC"}

\* the counts handed to limit and offset: a negative, zero and a positive one
EngineCounts == {-1, 0, MaxCount}

-----------------------------------------------------------------------------
(* The engine under any sequence of calls *)

Init == \E items \in InitialData, impl \in SortImpls : constructor(items, impl)

\* the engine takes at most MaxCalls calls
CanCall == calls < MaxCalls

Next ==
    \/ \E c \in EngineConds :
          /\ CanCall /\ CountConds(conditionGroups) < MaxConds
          /\ where(c[1], c[2], c[3])
    \/ \E c \in EngineConds :
          /\ CanCall /\ CountConds(conditionGroups) < MaxConds
          /\ orWhere(c[1], c[2], c[3])
    \/ \E flds \in EngineSelects : CanCall /\ select(flds)
    \/ \E d \in Directions : CanCall /\ orderBy("age", d)
    \/ \E count \in EngineCounts : CanCall /\ limit(count)
    \/ \E count \in EngineCounts : CanCall /\ offset(count)
    \/ CanCall /\ distinct("age")
    \/ CanCall /\ value
    \/ \E record \in EngineInserts :
          /\ CanCall /\ Len(heap[data]) + Len(record.items) <= MaxLen
          /\ insert(record)
    \/ \E updates \in EngineUpdates : CanCall /\ update(updates)
    \/ CanCall /\ delete
    \/ CanCall /\ reset

Spec == Init /\ [][Next]_vars

-----------------------------------------------------------------------------
(* value() on every collection and query state *)

\* an engine on the caller's array items that builder calls brought to the
\* query state q
configured(items, q, impl) ==
    /\ heap = [r \in Refs |-> IF r = callerArray THEN items ELSE <<>>]
    /\ data = callerArray
    /\ conditionGroups = q.conditionGroups
    /\ fields = q.fields
    /\ sortConfig = q.sortConfig
    /\ limitCount = q.limitCount
    /\ offsetCount = q.offsetCount
    /\ distinctField = q.distinctField
    /\ result = NoResult
    /\ lastCall = [op |-> "builder", args |-> <<>>, threw |-> FALSE]
    /\ pre = [query |-> q, data |-> callerArray, items |-> items,
              callerItems |-> items, result |-> NoResult, resultItems |-> <<>>]
    /\ calls = 0
    /\ sortImpl = impl

\* the values of the field age; a record may also have no age at all
Ages == {Num(1), Num(2), Null}

\* the records at position i of a collection: the id tells them apart
RecordsAt(i) == {Rec(i, age) : age \in Ages} \cup {[id |-> Num(i)]}

\* every collection of n records
CollectionsOf(n) ==
    {s \in [1..n -> UNION {RecordsAt(i) : i \in 1..n}] :
        \A i \in 1..n : s[i] \in RecordsAt(i)}

Collections == UNION {CollectionsOf(n) : n \in 0..MaxLen}

FilterConds ==
    { Cond("age", "=", Num(1)), Cond("age", ">=", Num(0)),
      Cond("id", "!=", Num(2)), Cond("id", "IN", Arr(<<Num(1), Num(3)>>)) }

\* the condition groups where and orWhere build from at most n conditions
RECURSIVE GroupSets(_, _)
GroupSets(conds, n) ==
    IF n = 0 THEN { <<<<>>>> }
    ELSE LET shorter == GroupSets(conds, n - 1)
         IN  shorter
             \cup {pushCondition(g, c) : g \in shorter, c \in conds}
             \cup {pushGroup(g, c) : g \in shorter, c \in conds}

InitFilter ==
    \E items \in Collections, groups \in GroupSets(FilterConds, MaxConds) :
        configured(items, [DefaultQuery EXCEPT !.conditionGroups = groups],
                   "binaryInsertion")

ReadGroups == { <<<<>>>>, <<<<Cond("age", "!=", Num(1))>>>> }
ReadSorts == {JSNull} \cup {Some([key |-> "age", direction |-> d]) : d \in Directions}
ReadLimits == {JSNull} \cup {Some(n) : n \in 0..MaxCount}
ReadDistincts == {JSNull, Some("age")}
ReadFields == { <<>>, <<"id">>, <<"id", "age">> }

ReadQueries ==
    {Query(groups, flds, sortCfg, lim, off, dist) :
        groups \in ReadGroups, flds \in ReadFields, sortCfg \in ReadSorts,
        lim \in ReadLimits, off \in 0..MaxCount, dist \in ReadDistincts}

InitRead ==
    \E items \in Collections, q \in ReadQueries, impl \in SortImpls :
        configured(items, q, impl)

\* the caller runs the query once
NextRead == calls = 0 /\ value

SpecFilter == InitFilter /\ [][NextRead]_vars

SpecRead == InitRead /\ [][NextRead]_vars

\* the caller runs the same query twice
NextReread == calls < 2 /\ value

SpecReread == InitRead /\ [][NextReread]_vars

-----------------------------------------------------------------------------
(* update() and delete() on every collection and predicate *)

MutateConds ==
    { Cond("age", "=", Num(1)), Cond("age", ">=", Num(0)),
      Cond("id", "!=", Num(2)) }

\* a partial that overrides a field and one that adds a field
MutateUpdates == { [age |-> Num(2)], [dept |-> Num(7)] }

InitMutate ==
    \E items \in Collections, groups \in GroupSets(MutateConds, MaxConds) :
        configured(items, [DefaultQuery EXCEPT !.conditionGroups = groups],
                   "binaryInsertion")

\* the caller runs one mutation under the predicate
NextMutate ==
    \/ \E updates \in MutateUpdates : calls = 0 /\ update(updates)
    \/ calls = 0 /\ delete

SpecMutate == InitMutate /\ [][NextMutate]_vars

-----------------------------------------------------------------------------
(* Properties *)

\* the elements of s at the indices idx, in increasing index order
Pick(s, idx) ==
    [k \in 1..Cardinality(idx) |->
        s[CHOOSE i \in idx : Cardinality({j \in idx : j < i}) = k - 1]]

\* no condition is configured: every group is empty
NoCondition(groups) == \A g \in 1..Len(groups) : Len(groups[g]) = 0

\* the contents of the array the caller got from value()
ResultItems == heap[result]

\* C1: after any sequence of calls the array the caller passed to the
\* constructor has the same records in the same order as the collection the
\* engine reads.
CallerArrayTracksData == heap[callerArray] = heap[data]

\* C2: an insert performed after value() has returned does not change the
\* length or contents of the array value() returned, in every query state.
ResultUnaffectedByInsert ==
    (lastCall.op = "insert" /\ pre.result # NoResult)
        => ResultItems = pre.resultItems

\* C3: with no condition configured, update(partial) and delete() leave the
\* collection unchanged: same length, same records, same order.
EmptyPredicateMutationIsNoOp ==
    (lastCall.op \in {"update", "delete"}
     /\ NoCondition(pre.query.conditionGroups))
        => heap[data] = pre.items

\* update() ran on a non-empty collection with no condition configured
EmptyPredicateUpdateRan ==
    /\ lastCall.op = "update"
    /\ NoCondition(pre.query.conditionGroups)
    /\ Len(pre.items) >= 2
    /\ heap[data] = pre.items

\* C10: limit(n) and offset(n) with n < 0 raise at the call itself and leave
\* limit, offset, condition groups, projection, sort, distinct and the
\* collection as they were, so value() returns what it would have returned
\* before the failed call.
NegativeCountThrowsAndKeepsState ==
    /\ lastCall.op \in {"limit", "offset"}
          => (lastCall.threw <=> lastCall.args[1] < 0)
    /\ lastCall.threw
          => /\ lastCall.op \in {"limit", "offset"}
             /\ CurrentQuery = pre.query
             /\ data = pre.data
             /\ heap[data] = pre.items
             /\ heap[callerArray] = pre.callerItems
             /\ valueResult(heap[data], CurrentQuery, sortImpl)
                   = valueResult(pre.items, pre.query, sortImpl)

\* limit(-1) threw on an engine with limit, offset and a condition configured
NegativeLimitThrewOnConfiguredEngine ==
    /\ lastCall.op = "limit"
    /\ lastCall.threw
    /\ limitCount # JSNull
    /\ offsetCount > 0
    /\ ~NoCondition(conditionGroups)
    /\ Len(heap[data]) > 0

\* only predicates are configured: no sort, offset, limit, distinct, projection
OnlyPredicates ==
    /\ fields = <<>>
    /\ sortConfig = JSNull
    /\ limitCount = JSNull
    /\ offsetCount = 0
    /\ distinctField = JSNull

\* at least one non-empty group has all of its conditions true of item
SomeGroupHolds(item, groups) ==
    \E g \in 1..Len(groups) :
        /\ groups[g] # <<>>
        /\ \A c \in 1..Len(groups[g]) : evaluate(item, groups[g][c])

\* C4: with only predicates configured, value() returns, in collection
\* order, exactly the records for which at least one non-empty group has all
\* its conditions true, and every record when no condition is configured;
\* where(A).where(B).orWhere(C) selects (A AND B) OR C.
FilterSelectsDNF ==
    (lastCall.op = "value" /\ OnlyPredicates)
        => ResultItems =
              Pick(heap[data],
                   {i \in 1..Len(heap[data]) :
                       \/ NoCondition(conditionGroups)
                       \/ SomeGroupHolds(heap[data][i], conditionGroups)})

\* value() ran under where(A).where(B).orWhere(C): one record is returned
\* for C alone, one satisfies A but not B and is left out
FilteredByTwoGroups ==
    /\ lastCall.op = "value"
    /\ OnlyPredicates
    /\ Len(conditionGroups) = 2
    /\ Len(conditionGroups[1]) = 2
    /\ Len(conditionGroups[2]) = 1
    /\ \E i \in 1..Len(heap[data]) :
          LET item == heap[data][i] IN
          /\ evaluate(item, conditionGroups[2][1])
          /\ ~evaluate(item, conditionGroups[1][1])
          /\ item \in Range(ResultItems)
    /\ \E i \in 1..Len(heap[data]) :
          LET item == heap[data][i] IN
          /\ evaluate(item, conditionGroups[1][1])
          /\ ~evaluate(item, conditionGroups[1][2])
          /\ item \notin Range(ResultItems)

-----------------------------------------------------------------------------
(* The stages of the pipeline, stated independently of value() *)

\* the field value of a record is null or absent
NullAt(item, key) == Get(item, key).type \in {"null", "undefined"}

\* record i of s has a value, and comes before record j of s in the
\* direction's order of values, equal values in the order of s
ComesBefore(s, i, j, cfg) ==
    LET x == Get(s[i], cfg.key)
        y == Get(s[j], cfg.key)
    IN  /\ ~NullAt(s[i], cfg.key)
        /\ \/ NullAt(s[j], cfg.key)
           \/ IF cfg.direction = "ASC" THEN x.v < y.v ELSE x.v > y.v
           \/ x.v = y.v /\ i < j

\* the sequences that list the records of s with a value in that order and
\* after them the records without a value, these in any order
RefSorts(s, sortCfg) ==
    IF sortCfg = JSNull THEN {s}
    ELSE LET cfg == Unwrap(sortCfg)
             valued == {i \in 1..Len(s) : ~NullAt(s[i], cfg.key)}
             others == (1..Len(s)) \ valued
             rank(i) == 1 + Cardinality({j \in valued : ComesBefore(s, j, i, cfg)})
             tails == {t \in [(Cardinality(valued) + 1)..Len(s) -> others] :
                          \A k, l \in DOMAIN t : t[k] = t[l] => k = l}
         IN  {[k \in 1..Len(s) |->
                  IF k <= Cardinality(valued)
                  THEN s[CHOOSE i \in valued : rank(i) = k]
                  ELSE s[t[k]]] : t \in tails}

RefFilter(s, groups) ==
    IF NoCondition(groups) THEN s
    ELSE Pick(s, {i \in 1..Len(s) : SomeGroupHolds(s[i], groups)})

RefOffset(s, n) == Pick(s, {i \in 1..Len(s) : i > n})

RefLimit(s, lim) ==
    IF lim = JSNull THEN s ELSE Pick(s, {i \in 1..Len(s) : i <= Unwrap(lim)})

\* the indices of the records that are the first with their value of key
FirstOccurrences(s, key) ==
    {i \in 1..Len(s) : \A j \in 1..(i - 1) : Get(s[j], key) # Get(s[i], key)}

RefDistinct(s, dist) ==
    IF dist = JSNull THEN s ELSE Pick(s, FirstOccurrences(s, Unwrap(dist)))

\* the projected record carries every listed field, undefined when the
\* source record lacks it
RefProject(s, flds) ==
    IF flds = <<>> THEN s
    ELSE [i \in 1..Len(s) |-> [f \in Range(flds) |-> Get(s[i], f)]]

\* C5: value() applies the configured stages in the order filter, sort,
\* offset, limit, distinct, project, unconfigured stages skipped: its result
\* is project(distinct(limit(offset(sort(filter(collection)))))).
PipelineOrder ==
    lastCall.op = "value" =>
        \E sorted \in RefSorts(RefFilter(heap[data], conditionGroups), sortConfig) :
            heap[result] =
                RefProject(
                  RefDistinct(
                    RefLimit(RefOffset(sorted, offsetCount), limitCount),
                    distinctField),
                  fields)

\* value() ran with all six stages configured on a collection where removing
\* duplicates before paginating would have given another result
AllStagesRan ==
    /\ lastCall.op = "value"
    /\ ~NoCondition(conditionGroups)
    /\ sortConfig # JSNull
    /\ offsetCount > 0
    /\ limitCount # JSNull
    /\ distinctField # JSNull
    /\ fields # <<>>
    /\ Len(ResultItems) > 0
    /\ \A sorted \in RefSorts(RefFilter(heap[data], conditionGroups), sortConfig) :
          ResultItems #
              RefProject(
                RefLimit(RefOffset(RefDistinct(sorted, distinctField),
                                   offsetCount), limitCount),
                fields)

\* the filtered and sorted sequence value() paginates
FilteredSorted ==
    orderStage(whereStage(Stage(FALSE, heap[data]), CurrentQuery),
               CurrentQuery, sortImpl).items

\* C6: with offset n and limit m configured and no distinct, value() returns
\* exactly the records at positions [n, n+m) of the filtered and sorted
\* sequence, fewer if it is shorter, none when n >= its length or m = 0.
PaginationWindow ==
    (lastCall.op = "value" /\ limitCount # JSNull /\ distinctField = JSNull)
        => LET n == offsetCount
               m == Unwrap(limitCount)
               sorted == FilteredSorted
               stop == IF n + m < Len(sorted) THEN n + m ELSE Len(sorted)
               window == [i \in 1..(stop - n) |-> sorted[n + i]]
               returned == ResultItems
           IN  /\ returned = RefProject(window, fields)
               /\ (n >= Len(sorted) \/ m = 0) => returned = <<>>

\* value() returned a window that starts after the first record and stops
\* before the last record of a sorted sequence
WindowInTheMiddle ==
    /\ lastCall.op = "value"
    /\ limitCount # JSNull
    /\ distinctField = JSNull
    /\ sortConfig # JSNull
    /\ offsetCount >= 1
    /\ Unwrap(limitCount) >= 1
    /\ Len(FilteredSorted) > offsetCount + Unwrap(limitCount)
    /\ FilteredSorted # heap[data]
    /\ Len(ResultItems) = Unwrap(limitCount)

\* the filtered, sorted and paginated sequence distinct works on
BeforeDistinct ==
    limitStage(offsetStage(Stage(FALSE, FilteredSorted), CurrentQuery),
               CurrentQuery).items

\* C7: with distinct(field) configured the result has at most one record
\* per value of field, the record kept for a value is the first with that
\* value in the filtered, sorted and paginated order, and the kept records
\* stay in that order.
DistinctKeepsFirst ==
    (lastCall.op = "value" /\ distinctField # JSNull)
        => LET key == Unwrap(distinctField)
               before == BeforeDistinct
               kept == FirstOccurrences(before, key)
               returned == ResultItems
           IN  /\ returned = RefProject(Pick(before, kept), fields)
               /\ \A i, j \in kept :
                     i # j => Get(before[i], key) # Get(before[j], key)
               /\ \A i \in 1..Len(before) :
                     \E j \in kept :
                        j <= i /\ Get(before[j], key) = Get(before[i], key)
               /\ fields = <<>> =>
                     \A i, j \in 1..Len(returned) :
                        i # j => Get(returned[i], key) # Get(returned[j], key)

\* value() with distinct dropped the later of two records with one value and
\* kept two records out of a sorted sequence
DistinctDroppedDuplicate ==
    /\ lastCall.op = "value"
    /\ distinctField # JSNull
    /\ sortConfig # JSNull
    /\ fields = <<>>
    /\ Len(BeforeDistinct) = 3
    /\ Len(ResultItems) = 2
    /\ BeforeDistinct[1] \in Range(ResultItems)
    /\ BeforeDistinct[2] \notin Range(ResultItems)

\* the records value() projects
BeforeSelect == distinctStage(Stage(FALSE, BeforeDistinct), CurrentQuery).items

\* C8: with a non-empty projection every returned record contains exactly
\* the listed fields that are present on its source record, each with the
\* source's value; a listed field absent on the source record is omitted.
ProjectionOmitsAbsentFields ==
    (lastCall.op = "value" /\ fields # <<>>)
        => LET source == BeforeSelect
               returned == ResultItems
           IN  /\ Len(returned) = Len(source)
               /\ \A i \in 1..Len(returned) :
                     /\ DOMAIN returned[i] = Range(fields) \cap DOMAIN source[i]
                     /\ \A f \in DOMAIN returned[i] \cap DOMAIN source[i] :
                           returned[i][f] = source[i][f]

Reverse(s) == [i \in 1..Len(s) |-> s[Len(s) + 1 - i]]

\* the records of s that have a value of key
WithValue(s, key) == Pick(s, {i \in 1..Len(s) : ~NullAt(s[i], key)})

\* every record without a value of key comes after every record with one
NullsTrail(s, key) ==
    \A i, j \in 1..Len(s) : (i < j /\ NullAt(s[i], key)) => NullAt(s[j], key)

\* x comes before y in s
Before(s, x, y) ==
    \E i, j \in 1..Len(s) : i < j /\ s[i] = x /\ s[j] = y

\* value() ran with a sort and nothing after it
OnlySorted ==
    /\ lastCall.op = "value"
    /\ sortConfig # JSNull
    /\ offsetCount = 0
    /\ limitCount = JSNull
    /\ distinctField = JSNull
    /\ fields = <<>>

\* what value() returns on the same engine with the sort direction flipped
OtherDirection ==
    LET cfg == Unwrap(sortConfig)
        flipped == [key |-> cfg.key,
                    direction |-> IF cfg.direction = "ASC" THEN "DESC" ELSE "ASC"]
    IN  valueResult(heap[data], [CurrentQuery EXCEPT !.sortConfig = Some(flipped)],
                    sortImpl).items

-----------------------------------------------------------------------------
(* Mutations and the query state *)

\* C11: after update() or delete() every query-state component is at its
\* default, so value() then returns the whole collection as full records in
\* collection order; insert() leaves every query-state component as it was;
\* reset() restores the defaults and leaves the collection alone.
MutationsResetQueryState ==
    /\ lastCall.op \in {"update", "delete", "reset"}
          => CurrentQuery = DefaultQuery
    /\ lastCall.op \in {"update", "delete"}
          => valueResult(heap[data], CurrentQuery, sortImpl).items = heap[data]
    /\ (lastCall.op = "value" /\ pre.query = DefaultQuery)
          => ResultItems = pre.items
    /\ lastCall.op = "insert" => CurrentQuery = pre.query
    /\ lastCall.op = "reset"
          => /\ data = pre.data
             /\ heap[data] = pre.items
             /\ heap[callerArray] = pre.callerItems

\* update() changed a record under a query state that had a condition, a
\* projection and a sort configured
UpdateRanOnConfiguredEngine ==
    /\ lastCall.op = "update"
    /\ ~NoCondition(pre.query.conditionGroups)
    /\ pre.query.fields # <<>>
    /\ pre.query.sortConfig # JSNull
    /\ heap[data] # pre.items
    /\ CurrentQuery = DefaultQuery

\* C12: value() changes neither the collection nor any query-state
\* component, and a value() that directly follows a value() returns the same
\* records in the same order.
ValueIsPureAndRepeatable ==
    [][lastCall'.op = "value"
          => /\ CurrentQuery' = CurrentQuery
             /\ data' = data
             /\ heap'[data'] = heap[data]
             /\ heap'[callerArray] = heap[callerArray]
             /\ lastCall.op = "value" => heap'[result'] = heap[result]]_vars

\* value() ran a second time on a query state with a sort and returned again
\* a reordered or shortened copy of two or more records
SecondValueRan ==
    /\ lastCall.op = "value"
    /\ calls = 2
    /\ sortConfig # JSNull
    /\ result # data
    /\ Len(ResultItems) >= 2
    /\ ResultItems # heap[data]
    /\ ResultItems = pre.resultItems

\* C13: update(partial) under a predicate with at least one condition keeps
\* the collection's length and order; each record that matched the predicate
\* on its old values has the fields of partial with partial's values and its
\* other fields with their old values; every other record is unchanged.
UpdateMergesMatching ==
    (lastCall.op = "update" /\ ~NoCondition(pre.query.conditionGroups))
        => LET partial == lastCall.args[1]
               old == pre.items
               new == heap[data]
           IN  /\ Len(new) = Len(old)
               /\ \A i \in 1..Len(old) :
                     IF SomeGroupHolds(old[i], pre.query.conditionGroups)
                     THEN /\ DOMAIN new[i] = DOMAIN old[i] \cup DOMAIN partial
                          /\ \A f \in DOMAIN partial : new[i][f] = partial[f]
                          /\ \A f \in DOMAIN old[i] \ DOMAIN partial :
                                new[i][f] = old[i][f]
                     ELSE new[i] = old[i]

\* update() overrode the field of one record, which kept its other field,
\* and passed a record before it and a record after it through unchanged
UpdateChangedTheMiddleRecord ==
    /\ lastCall.op = "update"
    /\ Len(heap[data]) = 3
    /\ heap[data][1] = pre.items[1]
    /\ heap[data][3] = pre.items[3]
    /\ heap[data][2] # pre.items[2]
    /\ "age" \in DOMAIN pre.items[2] \cap DOMAIN lastCall.args[1]
    /\ heap[data][2].id = pre.items[2].id
    /\ SomeGroupHolds(pre.items[2], pre.query.conditionGroups)

-----------------------------------------------------------------------------
(* The condition groups *)

\* the state apart from the condition groups is what it was before the call
OnlyGroupsChanged ==
    /\ [CurrentQuery EXCEPT !.conditionGroups = pre.query.conditionGroups]
          = pre.query
    /\ data = pre.data
    /\ heap[data] = pre.items
    /\ heap[callerArray] = pre.callerItems

\* the group set is the single empty group
SingleEmptyGroup(groups) == Len(groups) = 1 /\ Len(groups[1]) = 0

\* C14: where(c) appends c to the last group and leaves the earlier groups
\* and all other state unchanged; orWhere(c) appends a new group holding
\* exactly c, except on the single empty group, where it puts c into group 0
\* as where(c) does; so the first predicate call on a fresh or reset engine
\* yields the single group [c].
PredicateCallsBuildGroups ==
    LET old == pre.query.conditionGroups
        new == conditionGroups
        c == Cond(lastCall.args[1], lastCall.args[2], lastCall.args[3])
        appendedToLast ==
            /\ Len(new) = Len(old)
            /\ \A g \in 1..(Len(old) - 1) : new[g] = old[g]
            /\ new[Len(old)] = old[Len(old)] \o <<c>>
    IN  /\ lastCall.op = "where" => appendedToLast /\ OnlyGroupsChanged
        /\ lastCall.op = "orWhere"
              => /\ OnlyGroupsChanged
                 /\ IF SingleEmptyGroup(old) THEN appendedToLast
                    ELSE /\ Len(new) = Len(old) + 1
                         /\ \A g \in 1..Len(old) : new[g] = old[g]
                         /\ new[Len(new)] = <<c>>
        /\ (lastCall.op \in {"where", "orWhere"} /\ SingleEmptyGroup(old))
              => new = <<<<c>>>>

\* where() added a second condition to the group an orWhere() had started
\* after a first group
WhereExtendedSecondGroup ==
    /\ lastCall.op = "where"
    /\ Len(conditionGroups) = 2
    /\ Len(conditionGroups[1]) = 1
    /\ Len(conditionGroups[2]) = 2
    /\ conditionGroups[1] = pre.query.conditionGroups[1]

-----------------------------------------------------------------------------
(* insert() *)

\* C15: insert(r) appends the single record r, insert(rs) appends all
\* records of the sequence rs in input order, at the end of the collection;
\* the records already there keep contents and positions and the length
\* grows by exactly the number of inserted records.
InsertAppends ==
    lastCall.op = "insert"
        => LET record == lastCall.args[1]
               old == pre.items
               new == heap[data]
               count == IF record.isArray THEN Len(record.items) ELSE 1
           IN  /\ data = pre.data
               /\ Len(new) = Len(old) + count
               /\ \A i \in 1..Len(old) : new[i] = old[i]
               /\ \A k \in 1..count : new[Len(old) + k] = record.items[k]

\* insert() appended a sequence of two records to a collection that held
\* a record already
InsertedSequenceAtEnd ==
    /\ lastCall.op = "insert"
    /\ lastCall.args[1].isArray
    /\ Len(lastCall.args[1].items) = 2
    /\ Len(pre.items) >= 1
    /\ Len(heap[data]) = Len(pre.items) + 2
    /\ heap[data][1] = pre.items[1]
    /\ heap[data][Len(heap[data])] = lastCall.args[1].items[2]

-----------------------------------------------------------------------------
(* The shape of the condition group set *)

\* C16: in every state reachable by where, orWhere, select, orderBy, limit,
\* offset, distinct, value, insert, update, delete and reset calls there is
\* at least one condition group, and an empty group only as the sole group.
GroupSetWellFormed ==
    /\ Len(conditionGroups) >= 1
    /\ \A g \in 1..Len(conditionGroups) :
          Len(conditionGroups[g]) = 0 => Len(conditionGroups) = 1

\* orWhere() was the first predicate call after a mutation or a reset had
\* brought a non-empty group set back to the single empty group
OrWhereSeededAfterReset ==
    /\ lastCall.op = "orWhere"
    /\ SingleEmptyGroup(pre.query.conditionGroups)
    /\ calls >= 3
    /\ conditionGroups = <<<<Cond(lastCall.args[1], lastCall.args[2],
                                  lastCall.args[3])>>>>

-----------------------------------------------------------------------------
(* Read and mutation match the same records *)

\* what value() returned, or would have returned, before the last call
ReadBefore == valueResult(pre.items, pre.query, sortImpl).items

\* only predicates were configured before the last call, at least one
PredicateOnlyBefore ==
    /\ ~NoCondition(pre.query.conditionGroups)
    /\ pre.query = [DefaultQuery EXCEPT
                       !.conditionGroups = pre.query.conditionGroups]

\* C17: under a predicate with at least one condition and no other stage,
\* delete() removes exactly the records value() returns and keeps the others
\* in their original relative order, and update() modifies exactly the
\* records value() returns.
MutationMatchesRead ==
    LET old == pre.items
        new == heap[data]
        read == Range(ReadBefore)
    IN  /\ (lastCall.op = "delete" /\ PredicateOnlyBefore)
              => /\ new = Pick(old, {i \in 1..Len(old) : old[i] \notin read})
                 /\ ReadBefore = Pick(old, {i \in 1..Len(old) :
                                               old[i] \notin Range(new)})
        /\ (lastCall.op = "update" /\ PredicateOnlyBefore)
              => /\ Len(new) = Len(old)
                 /\ \A i \in 1..Len(old) :
                       IF old[i] \in read
                       THEN \A f \in DOMAIN lastCall.args[1] :
                               /\ f \in DOMAIN new[i]
                               /\ new[i][f] = lastCall.args[1][f]
                       ELSE new[i] = old[i]

\* delete() under a predicate of two groups removed the first and the last
\* record, which value() returned, and kept the one between them
DeleteRemovedWhatValueReturns ==
    /\ lastCall.op = "delete"
    /\ PredicateOnlyBefore
    /\ Len(pre.query.conditionGroups) = 2
    /\ Len(pre.items) = 3
    /\ ReadBefore = <<pre.items[1], pre.items[3]>>
    /\ heap[data] = <<pre.items[2]>>

-----------------------------------------------------------------------------
(* select() *)

\* C18: select with an empty or absent field list changes nothing, so a
\* projection configured before stays and value() still projects to it; a
\* non-empty select replaces the list; a configured projection goes away
\* only through reset(), update() or delete().
EmptySelectIsNoOp ==
    /\ lastCall.op = "select"
          => LET flds == lastCall.args[1] IN
             /\ [CurrentQuery EXCEPT !.fields = pre.query.fields] = pre.query
             /\ data = pre.data
             /\ heap[data] = pre.items
             /\ IF flds = JSNull \/ flds = Some(<<>>)
                THEN fields = pre.query.fields
                ELSE fields = Unwrap(flds)
    /\ (pre.query.fields # <<>> /\ fields # pre.query.fields)
          => \/ lastCall.op \in {"reset", "update", "delete"} /\ fields = <<>>
             \/ lastCall.op = "select" /\ fields # <<>>
    /\ (lastCall.op = "value" /\ fields # <<>>)
          => \A i \in 1..Len(ResultItems) :
                DOMAIN ResultItems[i] = Range(fields)

\* select([]) was called on an engine with a projection, which stayed
EmptySelectKeptProjection ==
    /\ lastCall.op = "select"
    /\ lastCall.args[1] = Some(<<>>)
    /\ pre.query.fields # <<>>
    /\ fields = pre.query.fields

====
